---- MODULE Spec2Model ----
(***************************************************************************)
(* vman: a personal catalog of command-line tools, their tags and their    *)
(* command snippets (src/vman.py).  The store is the SQLite database of    *)
(* SCHEMA; the repository operations are the typer commands; the session   *)
(* is the Textual application VmanTUI.                                     *)
(*                                                                         *)
(* Text is modelled as a sequence of character codes, so that strip,       *)
(* split and the byte order of ORDER BY are computed, not assumed.         *)
(***************************************************************************)
EXTENDS Integers, Sequences, FiniteSets, Bags, TLC

VARIABLES
    store,          \* the database at DB_PATH
    context,        \* the text of the default-tool file at CONTEXT_PATH
    session,        \* VmanTUI().run(): "off", "running" or "crashed"
    oob,            \* commands run from a shell while the session is open
    tool_rows,      \* VmanTUI.tool_rows
    cmd_rows,       \* VmanTUI.cmd_rows
    selected_tool,  \* VmanTUI.selected_tool: <<>> is None, <<t>> a tool
    selected_cmd,   \* VmanTUI.selected_cmd: <<>> is None, <<c>> a command
    search_value,   \* VmanTUI.search.value, the live filter text
    modal           \* the modal screen a worker is waiting on

tuivars == <<session, oob, tool_rows, cmd_rows, selected_tool, selected_cmd, search_value, modal>>

vars == <<store, context, session, oob, tool_rows, cmd_rows, selected_tool,
          selected_cmd, search_value, modal>>

(***************************************************************************)
(* Bounds of the model.                                                    *)
(***************************************************************************)
MaxTools == 2
MaxCmds == 2
MaxId == MaxTools
MaxRows == 3
MaxOutOfBand == 1

(***************************************************************************)
(* Text.  97 = a, 65 = A, 98 = b, 32 = space, 44 = comma, 35 = #.          *)
(***************************************************************************)
Max(S) == CHOOSE x \in S : \A y \in S : y <= x

RECURSIVE lstrip(_)
lstrip(s) == IF s # <<>> /\ Head(s) = 32 THEN lstrip(Tail(s)) ELSE s

RECURSIVE rstrip(_)
rstrip(s) == IF s # <<>> /\ s[Len(s)] = 32 THEN rstrip(SubSeq(s, 1, Len(s) - 1)) ELSE s

strip(s) == rstrip(lstrip(s))

\* str.lower() on ASCII
lower(s) == [i \in 1..Len(s) |-> IF s[i] >= 65 /\ s[i] <= 90 THEN s[i] + 32 ELSE s[i]]

RECURSIVE lstrip_char(_, _)
lstrip_char(s, c) == IF s # <<>> /\ Head(s) = c THEN lstrip_char(Tail(s), c) ELSE s

\* index of the first occurrence of character c in s, 0 when there is none
RECURSIVE find(_, _, _)
find(s, c, i) ==
    IF i > Len(s) THEN 0
    ELSE IF s[i] = c THEN i
    ELSE find(s, c, i + 1)

\* str.split(c): the pieces between the occurrences of c, empty ones included
RECURSIVE split(_, _)
split(s, c) ==
    LET i == find(s, c, 1) IN
    IF i = 0 THEN <<s>>
    ELSE <<SubSeq(s, 1, i - 1)>> \o split(SubSeq(s, i + 1, Len(s)), c)

\* str.split(c, 1): at most one cut, at the first occurrence of c
split1(s, c) ==
    LET i == find(s, c, 1) IN
    IF i = 0 THEN <<s>>
    ELSE <<SubSeq(s, 1, i - 1), SubSeq(s, i + 1, Len(s))>>

\* byte order of two texts (SQLite's BINARY collation)
RECURSIVE StrLess(_, _)
StrLess(a, b) ==
    IF b = <<>> THEN FALSE
    ELSE IF a = <<>> THEN TRUE
    ELSE IF Head(a) # Head(b) THEN Head(a) < Head(b)
    ELSE StrLess(Tail(a), Tail(b))

(***************************************************************************)
(* The store: the four tables of SCHEMA.  tools, tags and commands have an *)
(* INTEGER PRIMARY KEY id; tool_tags has none and is a bag of rows.        *)
(***************************************************************************)
EmptyStore ==
    [tools |-> {}, tags |-> {}, tool_tags |-> EmptyBag, commands |-> {}]

\* an INTEGER PRIMARY KEY without AUTOINCREMENT: one more than the largest
NextId(rows) == IF rows = {} THEN 1 ELSE Max({r.id : r \in rows}) + 1

\* db(): a connection on the store with foreign keys on; exc is the
\* exception raised inside the with block, "" while there is none
db(s) ==
    [tools |-> s.tools, tags |-> s.tags, tool_tags |-> s.tool_tags,
     commands |-> s.commands, exc |-> ""]

Raise(conn, e) == IF conn.exc = "" THEN [conn EXCEPT !.exc = e] ELSE conn

CommitAnyway(s, conn) ==
    [tools |-> conn.tools, tags |-> conn.tags,
     tool_tags |-> conn.tool_tags, commands |-> conn.commands]

\* leaving the with block: commit, or roll back when an exception came out
Commit(s, conn) ==
    IF conn.exc = ""
    THEN [tools |-> conn.tools, tags |-> conn.tags,
          tool_tags |-> conn.tool_tags, commands |-> conn.commands]
    ELSE s

\* INSERT INTO tools(name, description); name is UNIQUE
InsertTool(conn, name, description) ==
    IF conn.exc # "" THEN conn
    ELSE IF \E r \in conn.tools : r.name = name THEN Raise(conn, "IntegrityError")
    ELSE [conn EXCEPT !.tools = @ \cup
              {[id |-> NextId(conn.tools), name |-> name, description |-> description]}]

\* UPDATE tools SET description=? WHERE id=?
UpdateToolDescription(conn, id, description) ==
    IF conn.exc # "" THEN conn
    ELSE [conn EXCEPT !.tools =
              {IF r.id = id THEN [r EXCEPT !.description = description] ELSE r : r \in @}]

\* INSERT INTO tags(name); name is UNIQUE
InsertTag(conn, tag) ==
    IF conn.exc # "" THEN conn
    ELSE IF \E r \in conn.tags : r.name = tag THEN Raise(conn, "IntegrityError")
    ELSE [conn EXCEPT !.tags = @ \cup {[id |-> NextId(conn.tags), name |-> tag]}]

\* INSERT OR IGNORE INTO tool_tags(tool_id, tag_id): UNIQUE(tool_id, tag_id)
\* makes a second attachment a no-op; the foreign keys are enforced
InsertToolTagAlways(conn, tool_id, tag_id) ==
    LET row == [tool_id |-> tool_id, tag_id |-> tag_id] IN
    IF conn.exc # "" THEN conn
    ELSE [conn EXCEPT !.tool_tags = @ (+) SetToBag({row})]

InsertOrIgnoreToolTag(conn, tool_id, tag_id) ==
    LET row == [tool_id |-> tool_id, tag_id |-> tag_id] IN
    IF conn.exc # "" THEN conn
    ELSE IF BagIn(row, conn.tool_tags) THEN conn
    ELSE IF ~ (\E r \in conn.tools : r.id = tool_id) \/ ~ (\E r \in conn.tags : r.id = tag_id)
         THEN Raise(conn, "IntegrityError")
    ELSE [conn EXCEPT !.tool_tags = @ (+) SetToBag({row})]

ensure_tool_nocase(conn, name, description) ==
    LET row == {r \in conn.tools : lower(r.name) = lower(name)} IN
    IF row # {}
    THEN LET id == (CHOOSE r \in row : TRUE).id IN
         [conn |-> IF description # <<>>
                   THEN UpdateToolDescription(conn, id, description)
                   ELSE conn,
          id |-> id]
    ELSE [conn |-> InsertTool(conn, name, description), id |-> NextId(conn.tools)]

ensure_tool_always_update(conn, name, description) ==
    LET row == {r \in conn.tools : r.name = name} IN
    IF row # {}
    THEN LET id == (CHOOSE r \in row : TRUE).id IN
         [conn |-> UpdateToolDescription(conn, id, description), id |-> id]
    ELSE [conn |-> InsertTool(conn, name, description), id |-> NextId(conn.tools)]

ensure_tool(conn, name, description) ==
    LET row == {r \in conn.tools : r.name = name} IN
    IF row # {}
    THEN LET id == (CHOOSE r \in row : TRUE).id IN
         [conn |-> IF description # <<>>
                   THEN UpdateToolDescription(conn, id, description)
                   ELSE conn,
          id |-> id]
    ELSE [conn |-> InsertTool(conn, name, description), id |-> NextId(conn.tools)]

ensure_tag(conn, tag) ==
    LET row == {r \in conn.tags : r.name = tag} IN
    IF row # {}
    THEN [conn |-> conn, id |-> (CHOOSE r \in row : TRUE).id]
    ELSE [conn |-> InsertTag(conn, tag), id |-> NextId(conn.tags)]

RECURSIVE attach_each(_, _, _)
attach_each(conn, tool_id, tags) ==
    IF tags = <<>> THEN conn
    ELSE LET t == strip(Head(tags)) IN
         IF t = <<>> THEN attach_each(conn, tool_id, Tail(tags))
         ELSE LET e == ensure_tag(conn, t) IN
              attach_each(InsertOrIgnoreToolTag(e.conn, tool_id, e.id), tool_id, Tail(tags))

attach_tags_replace(conn, tool_id, tags) ==
    attach_each([conn EXCEPT !.tool_tags =
                     [r \in {x \in DOMAIN @ : x.tool_id # tool_id} |-> @[r]]],
                tool_id, tags)

\* a value that is not a str (an integer of a TOML document): it has no strip
NotText == <<-1>>

IsText(t) == \A i \in 1..Len(t) : t[i] >= 0

\* the list comprehension strips every tag before the first one is attached
attach_tags(conn, tool_id, tags) ==
    IF \E i \in 1..Len(tags) : ~ IsText(tags[i])
    THEN Raise(conn, "AttributeError")
    ELSE attach_each(conn, tool_id, tags)

\* SELECT id FROM tools WHERE name=?; 0 stands for Python's None
get_tool_id(conn, name) ==
    LET row == {r \in conn.tools : r.name = name} IN
    IF row # {} THEN (CHOOSE r \in row : TRUE).id ELSE 0

(***************************************************************************)
(* Repository operations: the typer commands.  Each returns the store it   *)
(* leaves and err, "" on success.  raise typer.Exit(<message>) inside the  *)
(* with block is an exception: the connection rolls back.                  *)
(***************************************************************************)
Result(s, conn) == [store |-> Commit(s, conn), err |-> conn.exc]

add_tool(s, name, description, tags) ==
    LET e == ensure_tool(db(s), name, description) IN
    Result(s, attach_tags(e.conn, e.id, tags))

\* INSERT INTO commands(tool_id, name, description, snippet):
\* tool_id NOT NULL REFERENCES tools(id), UNIQUE(tool_id, name)
InsertCommandNoForeignKey(conn, tool_id, name, description, snippet) ==
    IF conn.exc # "" THEN conn
    ELSE IF tool_id = 0
         \/ (\E r \in conn.commands : r.tool_id = tool_id /\ r.name = name)
         THEN Raise(conn, "IntegrityError")
    ELSE [conn EXCEPT !.commands = @ \cup
              {[id |-> NextId(conn.commands), tool_id |-> tool_id, name |-> name,
                description |-> description, snippet |-> snippet]}]

InsertCommand(conn, tool_id, name, description, snippet) ==
    IF conn.exc # "" THEN conn
    ELSE IF tool_id = 0
         \/ ~ (\E r \in conn.tools : r.id = tool_id)
         \/ (\E r \in conn.commands : r.tool_id = tool_id /\ r.name = name)
         THEN Raise(conn, "IntegrityError")
    ELSE [conn EXCEPT !.commands = @ \cup
              {[id |-> NextId(conn.commands), tool_id |-> tool_id, name |-> name,
                description |-> description, snippet |-> snippet]}]

\* UPDATE commands SET description=?, snippet=? WHERE id=?
UpdateCommand(conn, id, description, snippet) ==
    IF conn.exc # "" THEN conn
    ELSE [conn EXCEPT !.commands =
              {IF r.id = id
               THEN [r EXCEPT !.description = description, !.snippet = snippet]
               ELSE r : r \in @}]

\* the select-then-update-or-insert block shared by add_cmd, cmd_short,
\* qcmd, wizard and import_toml
upsert_command_keep_nonempty(conn, tool_id, name, description, snippet) ==
    LET existing == {r \in conn.commands : r.tool_id = tool_id /\ r.name = name} IN
    IF existing # {}
    THEN LET old == CHOOSE r \in existing : TRUE IN
         UpdateCommand(conn, old.id,
                       IF description # <<>> THEN description ELSE old.description,
                       IF snippet # <<>> THEN snippet ELSE old.snippet)
    ELSE InsertCommand(conn, tool_id, name, description, snippet)

upsert_command(conn, tool_id, name, description, snippet) ==
    LET existing == {r \in conn.commands : r.tool_id = tool_id /\ r.name = name} IN
    IF existing # {}
    THEN UpdateCommand(conn, (CHOOSE r \in existing : TRUE).id, description, snippet)
    ELSE InsertCommand(conn, tool_id, name, description, snippet)

add_cmd_create_tool(s, tool, name, description, snippet) ==
    LET e == ensure_tool(db(s), tool, <<>>) IN
    Result(s, upsert_command(e.conn, e.id, name, description, snippet))

add_cmd(s, tool, name, description, snippet) ==
    LET conn == db(s)
        tool_id == get_tool_id(conn, tool) IN
    IF tool_id = 0 THEN Result(s, Raise(conn, "NotFound"))
    ELSE Result(s, upsert_command(conn, tool_id, name, description, snippet))

\* DELETE FROM tools WHERE name=?, with ON DELETE CASCADE on commands and
\* tool_tags (PRAGMA foreign_keys=ON in db())
DeleteToolNoCascade(conn, name) ==
    IF conn.exc # "" THEN conn
    ELSE [conn EXCEPT !.tools = {r \in @ : r.name # name}]

DeleteTool(conn, name) ==
    LET gone == {r.id : r \in {t \in conn.tools : t.name = name}} IN
    IF conn.exc # "" THEN conn
    ELSE [conn EXCEPT
            !.tools = {r \in @ : r.name # name},
            !.commands = {r \in @ : r.tool_id \notin gone},
            !.tool_tags = [r \in {x \in DOMAIN @ : x.tool_id \notin gone} |-> @[r]]]

rm_tool(s, name) == Result(s, DeleteTool(db(s), name))

\* DELETE FROM commands WHERE id IN (SELECT commands.id FROM commands JOIN
\* tools ON tools.id=commands.tool_id WHERE tools.name=? AND commands.name=?)
rm_cmd_any_tool(s, tool, name) ==
    LET conn == db(s) IN
    Result(s, [conn EXCEPT !.commands = {r \in @ : r.name # name}])

rm_cmd(s, tool, name) ==
    LET conn == db(s)
        ids == {c.id : c \in {r \in conn.commands :
                   r.name = name /\ \E t \in conn.tools : t.id = r.tool_id /\ t.name = tool}} IN
    Result(s, [conn EXCEPT !.commands = {r \in @ : r.id \notin ids}])

\* _set_context / _get_context: the default-tool file; <<>> is Python's None
set_context(name) == strip(name)

get_context(ctx) == strip(ctx)

\* t.strip().lstrip("#") for each non-blank piece of s.split(",")
RECURSIVE split_tags_of(_)
split_tags_of(pieces) ==
    IF pieces = <<>> THEN <<>>
    ELSE IF strip(Head(pieces)) = <<>> THEN split_tags_of(Tail(pieces))
    ELSE <<lstrip_char(strip(Head(pieces)), 35)>> \o split_tags_of(Tail(pieces))

split_tags(s) == split_tags_of(split(s, 44))

use_tool(s, name, description, tags) ==
    LET e == ensure_tool(db(s), name, description) IN
    Result(s, IF tags # <<>> THEN attach_tags(e.conn, e.id, tags) ELSE e.conn)

\* cmd: the tool is the --tool option or, without it, the default tool
cmd_short(s, ctx, name, description, snippet, tool) ==
    LET t == IF tool # <<>> THEN tool ELSE get_context(ctx) IN
    IF t = <<>> THEN [store |-> s, err |-> "NoDefaultTool"]
    ELSE add_cmd(s, t, name, description, snippet)

\* qtool 'name: description #tag,tag'
qtool_name(spec) == strip(split1(spec, 58)[1])

qtool_rest(spec) == IF find(spec, 58, 1) # 0 THEN split1(spec, 58)[2] ELSE <<>>

qtool_desc(spec) ==
    LET rest == qtool_rest(spec) IN
    strip(IF find(rest, 35, 1) # 0 THEN split1(rest, 35)[1] ELSE rest)

qtool_tags(spec) ==
    LET rest == qtool_rest(spec)
        tags_str == IF find(rest, 35, 1) # 0 THEN split1(rest, 35)[2] ELSE <<>> IN
    IF tags_str # <<>> THEN split_tags(tags_str) ELSE <<>>

qtool(s, spec) == add_tool(s, qtool_name(spec), qtool_desc(spec), qtool_tags(spec))

\* qcmd 'tool.cmd: description | snippet'; 58 = ':', 124 = '|', 46 = '.'
qcmd_left(spec) == strip(split1(spec, 58)[1])

qcmd_desc(spec) ==
    LET right == split1(spec, 58)[2] IN
    strip(IF find(right, 124, 1) # 0 THEN split1(right, 124)[1] ELSE right)

qcmd_snippet(spec) ==
    LET right == split1(spec, 58)[2] IN
    strip(IF find(right, 124, 1) # 0 THEN split1(right, 124)[2] ELSE <<>>)

qcmd_tool(spec, tool, ctx) ==
    LET left == qcmd_left(spec) IN
    IF find(left, 46, 1) # 0 THEN strip(split1(left, 46)[1])
    ELSE IF tool # <<>> THEN tool ELSE get_context(ctx)

qcmd_cname(spec) ==
    LET left == qcmd_left(spec) IN
    IF find(left, 46, 1) # 0 THEN split1(left, 46)[2] ELSE strip(left)

qcmd(s, ctx, spec, tool) ==
    IF find(spec, 58, 1) = 0 THEN [store |-> s, err |-> "BadSpec"]
    ELSE IF find(qcmd_left(spec), 46, 1) = 0 /\ qcmd_tool(spec, tool, ctx) = <<>>
         THEN [store |-> s, err |-> "NoDefaultTool"]
    ELSE add_cmd(s, qcmd_tool(spec, tool, ctx), qcmd_cname(spec),
                 qcmd_desc(spec), qcmd_snippet(spec))

\* import-toml: every tool and command of the document in one transaction;
\* a record without "name" (has_name = FALSE) raises KeyError
RECURSIVE import_commands(_, _, _)
import_commands(conn, tid, cmds) ==
    IF cmds = <<>> \/ conn.exc # "" THEN conn
    ELSE LET c == Head(cmds) IN
         IF ~ c.has_name THEN Raise(conn, "KeyError")
         ELSE import_commands(
                  upsert_command(conn, tid, c.name, c.description, c.snippet),
                  tid, Tail(cmds))

RECURSIVE import_tools(_, _)
import_tools(conn, tools) ==
    IF tools = <<>> \/ conn.exc # "" THEN conn
    ELSE LET t == Head(tools) IN
         IF ~ t.has_name THEN Raise(conn, "KeyError")
         ELSE LET e == ensure_tool(conn, t.name, t.description)
                  c1 == attach_tags(e.conn, e.id, t.tags) IN
              import_tools(import_commands(c1, e.id, t.commands), Tail(tools))

import_toml(s, data) == Result(s, import_tools(db(s), data))

(***************************************************************************)
(* Inputs.  a = <<97>>, A = <<65>>; d = <<100>>; x = <<120>>, y = <<121>>; *)
(* g = <<103>>, h = <<104>>; s = <<115>>.                                  *)
(***************************************************************************)
ToolNames == {<<97>>, <<65>>}

Descriptions == {<<>>, <<100>>}

\* --tag values: none, x, x twice, " y" and x
TagLists == {<<>>, <<<<120>>>>, <<<<120>>, <<120>>>>, <<<<32, 121>>, <<120>>>>}

CmdNames == {<<103>>, <<104>>}

\* --desc and --run of a command: both empty, or "d" and "s"
CmdTexts == {<< <<>>, <<>> >>, << <<100>>, <<115>> >>}

\* --tool option of cmd and qcmd: absent, or a tool name
ToolOptions == {<<>>} \cup ToolNames

\* qtool specs: "a:d#x,y"  "A"  "A: #x"  "a:"
QtoolSpecs ==
    {<<97, 58, 100, 35, 120, 44, 121>>, <<65>>, <<65, 58, 32, 35, 120>>, <<97, 58>>}

\* qcmd specs: "a.g:d|s"  "g:"  "A.h: d |s"  "g"  "a.:|s" (an empty name)
QcmdSpecs ==
    {<<97, 46, 103, 58, 100, 124, 115>>, <<103, 58>>,
     <<65, 46, 104, 58, 32, 100, 32, 124, 115>>, <<103>>, <<97, 46, 58, 124, 115>>}

\* import documents: the list under "tools"; the third has a record with
\* no name, the fourth a tag that is a number
ImportCommand(name, description, snippet) ==
    [has_name |-> TRUE, name |-> name, description |-> description, snippet |-> snippet]

ImportTool(name, description, tags, commands) ==
    [has_name |-> TRUE, name |-> name, description |-> description,
     tags |-> tags, commands |-> commands]

ImportDocs ==
    {<< ImportTool(<<97>>, <<100>>, <<<<120>>>>, <<ImportCommand(<<103>>, <<100>>, <<115>>)>>) >>,
     << ImportTool(<<65>>, <<>>, <<>>, <<ImportCommand(<<104>>, <<>>, <<>>),
                                         ImportCommand(<<104>>, <<100>>, <<115>>)>>),
        ImportTool(<<65>>, <<100>>, <<<<121>>>>, <<>>) >>,
     << ImportTool(<<65>>, <<100>>, <<>>, <<>>),
        [has_name |-> FALSE, name |-> <<>>, description |-> <<>>,
         tags |-> <<>>, commands |-> <<>>] >>,
     << ImportTool(<<97>>, <<100>>, <<<<120>>, NotText>>,
                   <<ImportCommand(<<103>>, <<>>, <<>>)>>) >>}

\* the stores the model explores
WithinBounds(s) ==
    /\ Cardinality(s.tools) <= MaxTools
    /\ Cardinality(s.commands) <= MaxCmds
    /\ Cardinality(s.tools) + Cardinality(s.commands)
           + BagCardinality(s.tool_tags) <= MaxRows
    /\ \A r \in s.tools \cup s.commands : r.id <= MaxId

(***************************************************************************)
(* Read operations: show, search (Query) and the catalog snapshot.         *)
(***************************************************************************)
\* the rows of a set in ascending order of name (ORDER BY name), and of
\* insertion among equal names
RECURSIVE OrderByName(_)
OrderByName(rows) ==
    IF rows = {} THEN <<>>
    ELSE LET first == CHOOSE r \in rows : \A o \in rows :
                          \/ StrLess(r.name, o.name)
                          \/ (r.name = o.name /\ r.id <= o.id) IN
         <<first>> \o OrderByName(rows \ {first})

\* the tags attached to a tool, as tag rows
TagRowsOf(conn, tool_id) ==
    {g \in conn.tags : BagIn([tool_id |-> tool_id, tag_id |-> g.id], conn.tool_tags)}

\* show: the tool, its tags by name and its commands by name; found is
\* FALSE where the source exits with "Tool not found"
show_tool(s, name) ==
    LET conn == db(s)
        tool == {r \in conn.tools : r.name = name}
        tool_id == (CHOOSE r \in tool : TRUE).id
        tags == OrderByName(TagRowsOf(conn, tool_id))
        cmds == OrderByName({c \in conn.commands : c.tool_id = tool_id}) IN
    IF tool = {} THEN [found |-> FALSE, tags |-> <<>>, cmds |-> <<>>]
    ELSE [found |-> TRUE,
          tags |-> [i \in 1..Len(tags) |-> tags[i].name],
          cmds |-> [i \in 1..Len(cmds) |->
                       [name |-> cmds[i].name, description |-> cmds[i].description,
                        snippet |-> cmds[i].snippet]]]

\* SQLite's LIKE: % (37) is any text, _ (95) any character, ASCII letters
\* compare without case
RECURSIVE like(_, _)
like(text, pattern) ==
    IF pattern = <<>> THEN text = <<>>
    ELSE IF Head(pattern) = 37
         THEN like(text, Tail(pattern)) \/ (text # <<>> /\ like(Tail(text), pattern))
    ELSE IF text = <<>> THEN FALSE
    ELSE /\ Head(pattern) = 95 \/ lower(<<Head(pattern)>>) = lower(<<Head(text)>>)
         /\ like(Tail(text), Tail(pattern))

\* FROM tools [JOIN tool_tags JOIN tags] LEFT JOIN commands: one row for
\* each tool, attachment of the tag and command; cmd is <<>> (NULL) for a
\* tool without commands
JoinedRows(conn, tag) ==
    LET copies(t) ==
            IF tag = <<>> THEN {1}
            ELSE {k \in 1..MaxRows + 1 : \E g \in conn.tags :
                     /\ g.name = tag
                     /\ BagIn([tool_id |-> t.id, tag_id |-> g.id], conn.tool_tags)
                     /\ k <= CopiesIn([tool_id |-> t.id, tag_id |-> g.id], conn.tool_tags)}
        cmds(t) == {c \in conn.commands : c.tool_id = t.id} IN
    UNION {IF cmds(t) = {}
           THEN {[tool |-> t, cmd |-> <<>>, copy |-> k] : k \in copies(t)}
           ELSE {[tool |-> t, cmd |-> <<c>>, copy |-> k] : c \in cmds(t), k \in copies(t)}
           : t \in conn.tools}

\* ORDER BY tools.name, commands.name: NULL sorts first
JoinedLessEq(r, o) ==
    \/ StrLess(r.tool.name, o.tool.name)
    \/ /\ r.tool.name = o.tool.name
       /\ \/ r.cmd = <<>>
          \/ r.cmd # <<>> /\ o.cmd # <<>> /\ StrLess(r.cmd[1].name, o.cmd[1].name)
          \/ r.cmd # <<>> /\ o.cmd # <<>> /\ r.cmd[1].name = o.cmd[1].name
             /\ (r.cmd[1].id < o.cmd[1].id
                 \/ (r.cmd[1].id = o.cmd[1].id /\ r.copy <= o.copy))

RECURSIVE OrderJoinedByRowid(_)
OrderJoinedByRowid(rows) ==
    IF rows = {} THEN <<>>
    ELSE LET key(r) == <<r.tool.id, IF r.cmd = <<>> THEN 0 ELSE r.cmd[1].id, r.copy>>
             first == CHOOSE r \in rows : \A o \in rows :
                          \/ key(r)[1] < key(o)[1]
                          \/ key(r)[1] = key(o)[1] /\ key(r)[2] < key(o)[2]
                          \/ key(r)[1] = key(o)[1] /\ key(r)[2] = key(o)[2]
                                 /\ key(r)[3] <= key(o)[3] IN
         <<first>> \o OrderJoinedByRowid(rows \ {first})

RECURSIVE OrderJoined(_)
OrderJoined(rows) ==
    IF rows = {} THEN <<>>
    ELSE LET first == CHOOSE r \in rows : \A o \in rows : JoinedLessEq(r, o) IN
         <<first>> \o OrderJoined(rows \ {first})

\* search: q, tag, tool and cmd are <<>> when absent
search(s, q, tag, tool, cmd, exact) ==
    LET conn == db(s)
        pat(x) == <<37>> \o x \o <<37>>
        textOk(r) ==
            \/ q = <<>>
            \/ like(r.tool.name, pat(q))
            \/ like(r.tool.description, pat(q))
            \/ r.cmd # <<>> /\ (\/ like(r.cmd[1].name, pat(q))
                                \/ like(r.cmd[1].description, pat(q))
                                \/ like(r.cmd[1].snippet, pat(q)))
        toolOk(r) == tool = <<>> \/ r.tool.name = tool
        cmdOk(r) ==
            \/ cmd = <<>>
            \/ r.cmd # <<>> /\ (IF exact THEN r.cmd[1].name = cmd
                                ELSE like(r.cmd[1].name, pat(cmd)))
        rows == OrderJoined({r \in JoinedRows(conn, tag) : textOk(r) /\ toolOk(r) /\ cmdOk(r)}) IN
    [i \in 1..Len(rows) |->
        [tool |-> rows[i].tool.name,
         cmd |-> IF rows[i].cmd = <<>> THEN <<>> ELSE rows[i].cmd[1].name,
         snippet |-> IF rows[i].cmd = <<>> THEN <<>> ELSE rows[i].cmd[1].snippet,
         description |-> IF rows[i].cmd = <<>> THEN <<>> ELSE rows[i].cmd[1].description]]

\* " ".join(filter(None, parts))
RECURSIVE join_nonempty(_)
join_nonempty(parts) ==
    IF parts = <<>> THEN <<>>
    ELSE LET rest == join_nonempty(Tail(parts)) IN
         IF Head(parts) = <<>> THEN rest
         ELSE IF rest = <<>> THEN Head(parts)
         ELSE Head(parts) \o <<32>> \o rest

\* _build_catalog: the snapshot; 8230 is the ellipsis
SummaryLen == 80

build_catalog(conn, tool, tag) ==
    LET rows == OrderJoined({r \in JoinedRows(conn, tag) : tool = <<>> \/ r.tool.name = tool})
        kept == SelectSeq(rows, LAMBDA r : r.cmd # <<>> /\ r.cmd[1].name # <<>>)
        item(r) ==
            LET desc == r.cmd[1].description
                snip == r.cmd[1].snippet IN
            [tool |-> r.tool.name, cmd |-> r.cmd[1].name, desc |-> desc, snippet |-> snip,
             summary |-> IF desc # <<>> THEN desc
                         ELSE IF Len(snip) > SummaryLen
                              THEN SubSeq(snip, 1, SummaryLen) \o <<8230>>
                              ELSE snip,
             search |-> join_nonempty(<<r.tool.name, r.cmd[1].name, desc, snip>>)] IN
    [i \in 1..Len(kept) |-> item(kept[i])]

(***************************************************************************)
(* Running a stored snippet.  answer is what the user replies if asked to  *)
(* confirm, status the exit status of the child process if it runs.  The   *)
(* outcome: what was printed, whether the confirmation was asked, what was *)
(* executed, and the exit status of the command (<<>> where the operation  *)
(* reports none).                                                          *)
(***************************************************************************)
Outcome(printed, asked, executed, exit) ==
    [printed |-> printed, asked |-> asked, executed |-> executed, exit |-> exit]

\* exit statuses of a child process
ExitStatuses == {0, 1, 3}

\* the end of run, fuzzy --choose and pick: print, or confirm and execute
print_or_execute(snippet, exec_, yes, answer, status) ==
    IF ~ exec_ THEN Outcome(<<snippet>>, FALSE, <<>>, <<0>>)
    ELSE IF ~ yes /\ ~ answer THEN Outcome(<<>>, TRUE, <<>>, <<1>>)
    ELSE Outcome(<<>>, ~ yes, <<snippet>>, <<status>>)

\* run TOOL NAME [--exec] [--yes]; raise typer.Exit(<message>) exits with 1
run_snippet(s, tool, name, exec_, yes, answer, status) ==
    LET tool_id == get_tool_id(db(s), tool)
        rows == {r \in s.commands : r.tool_id = tool_id /\ r.name = name} IN
    IF tool_id = 0 \/ rows = {} THEN Outcome(<<>>, FALSE, <<>>, <<1>>)
    ELSE print_or_execute((CHOOSE r \in rows : TRUE).snippet, exec_, yes, answer, status)

\* fuzz.WRatio gives a score from 0 to 100 to a choice; a scorer here is a
\* function from the choices (the search texts of the snapshot) to scores
Scores == {0, 50, 100}

\* the order of the matches of process.extract: higher score first, and
\* lower index first among equal scores
RECURSIVE SortMatches(_)
SortMatches(matches) ==
    IF matches = {} THEN <<>>
    ELSE LET first == CHOOSE m \in matches : \A o \in matches :
                          \/ m.score > o.score
                          \/ (m.score = o.score /\ m.idx <= o.idx) IN
         <<first>> \o SortMatches(matches \ {first})

\* process.extract(query, choices, scorer=fuzz.WRatio, limit=limit), for a
\* limit that is not negative: every choice is scored (no score_cutoff), the
\* matches are sorted and the first limit of them returned
extract(scorer, choices, limit) ==
    LET matches == {[idx |-> i, score |-> scorer[choices[i]]] : i \in 1..Len(choices)}
        sorted == SortMatches(matches) IN
    SubSeq(sorted, 1, IF limit < Len(sorted) THEN limit ELSE Len(sorted))

fuzzy_ranked_always_scored(catalog, query, top, scorer) ==
    extract(scorer, [i \in 1..Len(catalog) |-> catalog[i].search], top)

fuzzy_ranked_no_limit(catalog, query, top, scorer) ==
    LET choices == [i \in 1..Len(catalog) |-> catalog[i].search] IN
    IF query # <<>> THEN extract(scorer, choices, Len(choices))
    ELSE [i \in 1..Len(catalog) |-> [idx |-> i, score |-> 100]]

\* fuzzy: the ranked list of (index into the snapshot, score); query is <<>>
\* when absent or empty
fuzzy_ranked(catalog, query, top, scorer) ==
    LET choices == [i \in 1..Len(catalog) |-> catalog[i].search] IN
    IF query # <<>> THEN extract(scorer, choices, top)
    ELSE [i \in 1..(IF top < Len(catalog) THEN top ELSE Len(catalog)) |->
             [idx |-> i, score |-> 100]]

\* the table fuzzy prints: row k shows the snapshot entry of the k-th match
fuzzy_table(catalog, ranked) ==
    [k \in 1..Len(ranked) |->
        [tool |-> catalog[ranked[k].idx].tool, cmd |-> catalog[ranked[k].idx].cmd,
         score |-> ranked[k].score, summary |-> catalog[ranked[k].idx].summary]]

fuzzy_choose_by_snapshot_index(catalog, ranked, pick, copy, exec_, yes, answer, status) ==
    IF pick < 1 \/ pick > Len(ranked)
    THEN [err |-> "InvalidSelection", chosen |-> <<>>, copied |-> <<>>,
          out |-> Outcome(<<>>, FALSE, <<>>, <<1>>)]
    ELSE [err |-> "", chosen |-> <<catalog[pick]>>,
          copied |-> IF copy THEN <<catalog[pick].snippet>> ELSE <<>>,
          out |-> print_or_execute(catalog[pick].snippet, exec_, yes, answer, status)]

\* fuzzy --choose: the entry shown at position pick (1-based) of the ranked
\* list is copied if asked, then printed or executed; err names the refusal,
\* copied is what was handed to the clipboard
fuzzy_choose(catalog, ranked, pick, copy, exec_, yes, answer, status) ==
    IF pick < 1 \/ pick > Len(ranked)
    THEN [err |-> "InvalidSelection", chosen |-> <<>>, copied |-> <<>>,
          out |-> Outcome(<<>>, FALSE, <<>>, <<1>>)]
    ELSE LET chosen == catalog[ranked[pick].idx] IN
         [err |-> "", chosen |-> <<chosen>>,
          copied |-> IF copy THEN <<chosen.snippet>> ELSE <<>>,
          out |-> print_or_execute(chosen.snippet, exec_, yes, answer, status)]

(***************************************************************************)
(* The session: VmanTUI.  Lists are 1-based here, 0-based in the source.   *)
(***************************************************************************)
\* part in blob
contains(blob, part) ==
    \E i \in 0..(Len(blob) - Len(part)) : SubSeq(blob, i + 1, i + Len(part)) = part

\* str.split(): the maximal runs of non-blank characters
RECURSIVE split_ws(_)
split_ws(s) ==
    LET t == lstrip(s)
        i == find(t, 32, 1) IN
    IF t = <<>> THEN <<>>
    ELSE IF i = 0 THEN <<t>>
    ELSE <<SubSeq(t, 1, i - 1)>> \o split_ws(SubSeq(t, i + 1, Len(t)))

\* SELECT id,name,COALESCE(description,'') FROM tools ORDER BY name
db_fetch_tools(conn) == OrderByName(conn.tools)

\* SELECT name, COALESCE(description,''), COALESCE(snippet,'')
\* FROM commands WHERE tool_id=? ORDER BY name
db_fetch_cmds(conn, tool_id) ==
    LET rows == OrderByName({r \in conn.commands : r.tool_id = tool_id}) IN
    [i \in 1..Len(rows) |->
        [name |-> rows[i].name, description |-> rows[i].description,
         snippet |-> rows[i].snippet]]

db_upsert_tool(conn, name, description, tags) ==
    LET row == {r \in conn.tools : r.name = name}
        tool_id == IF row # {} THEN (CHOOSE r \in row : TRUE).id ELSE NextId(conn.tools)
        c1 == IF row # {}
              THEN UpdateToolDescription(conn, tool_id, description)
              ELSE InsertTool(conn, name, description) IN
    [conn |-> attach_tags(c1, tool_id, tags), id |-> tool_id]

db_upsert_cmd_rename(conn, tool_id, name, description, snippet) ==
    IF \E r \in conn.commands : r.tool_id = tool_id
    THEN [conn EXCEPT !.commands =
              {IF r.tool_id = tool_id
               THEN [r EXCEPT !.name = name, !.description = description,
                              !.snippet = snippet]
               ELSE r : r \in @}]
    ELSE InsertCommand(conn, tool_id, name, description, snippet)

db_upsert_cmd_by_name(conn, tool_id, name, description, snippet) ==
    IF \E r \in conn.commands : r.name = name
    THEN [conn EXCEPT !.commands =
              {IF r.name = name
               THEN [r EXCEPT !.description = description, !.snippet = snippet]
               ELSE r : r \in @}]
    ELSE InsertCommand(conn, tool_id, name, description, snippet)

db_upsert_cmd(conn, tool_id, name, description, snippet) ==
    IF \E r \in conn.commands : r.tool_id = tool_id /\ r.name = name
    THEN [conn EXCEPT !.commands =
              {IF r.tool_id = tool_id /\ r.name = name
               THEN [r EXCEPT !.description = description, !.snippet = snippet]
               ELSE r : r \in @}]
    ELSE InsertCommand(conn, tool_id, name, description, snippet)

db_delete_cmd(conn, tool_id, name) ==
    [conn EXCEPT !.commands = {r \in @ : ~ (r.tool_id = tool_id /\ r.name = name)}]

\* the session's fields as one value
View(tr, cr, st, sc) ==
    [tool_rows |-> tr, cmd_rows |-> cr, selected_tool |-> st, selected_cmd |-> sc]

FreshView == View(<<>>, <<>>, <<>>, <<>>)

filtered_cmds_any_part(rows, value) ==
    LET q == lower(strip(value))
        parts == split_ws(q)
        keep(c) == \E k \in 1..Len(parts) :
                       contains(lower(c.name \o <<32>> \o c.description \o <<32>> \o c.snippet),
                                parts[k]) IN
    IF q = <<>> THEN rows ELSE SelectSeq(rows, keep)

filtered_cmds(rows, value) ==
    LET q == lower(strip(value))
        parts == split_ws(q)
        keep(c) == \A k \in 1..Len(parts) :
                       contains(lower(c.name \o <<32>> \o c.description \o <<32>> \o c.snippet),
                                parts[k]) IN
    IF q = <<>> THEN rows ELSE SelectSeq(rows, keep)

set_selected_cmd(v, value, idx) ==
    LET rows == filtered_cmds(v.cmd_rows, value) IN
    IF 0 <= idx /\ idx < Len(rows)
    THEN [v EXCEPT !.selected_cmd = <<rows[idx + 1]>>]
    ELSE v

load_cmds(s, v, value) ==
    IF v.selected_tool = <<>> THEN v
    ELSE LET v1 == [v EXCEPT !.cmd_rows = db_fetch_cmds(db(s), v.selected_tool[1].id)] IN
         IF filtered_cmds(v1.cmd_rows, value) # <<>>
         THEN set_selected_cmd(v1, value, 0)
         ELSE v1

set_selected_tool(s, v, value, idx) ==
    IF 0 <= idx /\ idx < Len(v.tool_rows)
    THEN load_cmds(s,
                   [v EXCEPT !.selected_tool =
                        << [id |-> v.tool_rows[idx + 1].id, name |-> v.tool_rows[idx + 1].name] >>],
                   value)
    ELSE v

load_tools_unless_empty(s, v, value) ==
    IF db_fetch_tools(db(s)) = <<>> THEN v
    ELSE set_selected_tool(s, [v EXCEPT !.tool_rows = db_fetch_tools(db(s))], value, 0)

load_tools(s, v, value) ==
    LET v1 == [v EXCEPT !.tool_rows = db_fetch_tools(db(s))] IN
    IF v1.tool_rows # <<>> THEN set_selected_tool(s, v1, value, 0) ELSE v1

select_tool_id_skip(s, v, value, tool_id) == v

\* the loop of action_add_tool that selects the row whose id is tool_id
select_tool_id(s, v, value, tool_id) ==
    LET hits == {i \in 1..Len(v.tool_rows) : v.tool_rows[i].id = tool_id} IN
    IF hits = {} THEN v
    ELSE set_selected_tool(s, v, value, (CHOOSE i \in hits : \A j \in hits : i <= j) - 1)

\* ToolForm fields: name (" A" is stripped to "A"), description, tags
ToolFormNames == {<<>>, <<97>>, <<32, 65>>}

\* "", "x, x"
ToolFormTags == {<<>>, <<120, 44, 32, 120>>}

\* CmdForm fields: name ("h " is stripped to "h")
CmdFormNames == {<<>>, <<103>>, <<104, 32>>}

\* the live filter: "", "D s"
SearchTexts == {<<>>, <<68, 32, 115>>}

form_tags(value) ==
    LET pieces == split(value, 44) IN
    SelectSeq([i \in 1..Len(pieces) |-> strip(pieces[i])], LAMBDA t : t # <<>>)

NoModal == [kind |-> "none", tool_id |-> 0, name |-> <<>>]

Modal(kind, tool_id, name) == [kind |-> kind, tool_id |-> tool_id, name |-> name]

CurrentView == View(tool_rows, cmd_rows, selected_tool, selected_cmd)

SetView(v) ==
    /\ tool_rows' = v.tool_rows
    /\ cmd_rows' = v.cmd_rows
    /\ selected_tool' = v.selected_tool
    /\ selected_cmd' = v.selected_cmd

viewvars == <<tool_rows, cmd_rows, selected_tool, selected_cmd>>

IdleOrModal == session = "running"

\* the application's key bindings and the widgets of its screen act only
\* while no ModalScreen is on top
Idle == session = "running" /\ modal.kind = "none"

\* the exit of the application: the next run builds a new VmanTUI
Exit(how) ==
    /\ session' = how
    /\ SetView(FreshView)
    /\ search_value' = <<>>
    /\ modal' = NoModal

Init ==
    /\ store = EmptyStore
    /\ context = <<>>
    /\ session = "off"
    /\ oob = 0
    /\ tool_rows = <<>>
    /\ cmd_rows = <<>>
    /\ selected_tool = <<>>
    /\ selected_cmd = <<>>
    /\ search_value = <<>>
    /\ modal = NoModal

(***************************************************************************)
(* The non-interactive commands, run from a shell at any time, also while  *)
(* the session is open (out-of-band edits, at most MaxOutOfBand of them).  *)
(***************************************************************************)
Shell(s) ==
    /\ WithinBounds(s)
    /\ session # "off" => oob < MaxOutOfBand
    /\ oob' = IF session # "off" THEN oob + 1 ELSE oob
    /\ store' = s
    /\ UNCHANGED <<session, viewvars, search_value, modal>>

Cmd_add_tool ==
    \E name \in ToolNames, description \in Descriptions, tags \in TagLists :
        /\ Shell(add_tool(store, name, description, tags).store)
        /\ UNCHANGED context

Cmd_add_cmd ==
    \E tool \in ToolNames, name \in CmdNames, text \in CmdTexts :
        /\ Shell(add_cmd(store, tool, name, text[1], text[2]).store)
        /\ UNCHANGED context

Cmd_rm_tool ==
    \E name \in ToolNames :
        /\ Shell(rm_tool(store, name).store)
        /\ UNCHANGED context

Cmd_rm_cmd ==
    \E tool \in ToolNames, name \in CmdNames :
        /\ Shell(rm_cmd(store, tool, name).store)
        /\ UNCHANGED context

Cmd_use ==
    \E name \in ToolNames, description \in Descriptions, tags \in TagLists :
        /\ Shell(use_tool(store, name, description, tags).store)
        /\ context' = set_context(name)

Cmd_cmd ==
    \E name \in CmdNames, text \in CmdTexts, tool \in ToolOptions :
        /\ Shell(cmd_short(store, context, name, text[1], text[2], tool).store)
        /\ UNCHANGED context

Cmd_qtool ==
    \E spec \in QtoolSpecs :
        /\ Shell(qtool(store, spec).store)
        /\ context' = set_context(qtool_name(spec))

Cmd_qcmd ==
    \E spec \in QcmdSpecs, tool \in ToolOptions :
        /\ Shell(qcmd(store, context, spec, tool).store)
        /\ UNCHANGED context

Cmd_import_toml ==
    \E data \in ImportDocs :
        /\ Shell(import_toml(store, data).store)
        /\ UNCHANGED context

Repository ==
    \/ Cmd_add_tool
    \/ Cmd_add_cmd
    \/ Cmd_rm_tool
    \/ Cmd_rm_cmd
    \/ Cmd_use
    \/ Cmd_cmd
    \/ Cmd_qtool
    \/ Cmd_qcmd
    \/ Cmd_import_toml

(***************************************************************************)
(* The session's handlers.  A key binding of the application acts only     *)
(* while no modal screen is up; the worker of an action resumes when its   *)
(* modal screen is dismissed.                                              *)
(***************************************************************************)
\* tui: VmanTUI().run(), on_mount
tui ==
    /\ session # "running"
    /\ session' = "running"
    /\ SetView(load_tools(store, FreshView, <<>>))
    /\ search_value' = <<>>
    /\ modal' = NoModal
    /\ UNCHANGED <<store, context, oob>>

action_quit ==
    /\ Idle
    /\ Exit("off")
    /\ UNCHANGED <<store, context, oob>>

action_reload ==
    /\ Idle
    /\ SetView(load_tools(store, CurrentView, search_value))
    /\ UNCHANGED <<store, context, session, oob, search_value, modal>>

\* on_list_view_highlighted on the tools list
highlight_tool ==
    /\ Idle
    /\ \E idx \in 0..(Len(tool_rows) - 1) :
           SetView(set_selected_tool(store, CurrentView, search_value, idx))
    /\ UNCHANGED <<store, context, session, oob, search_value, modal>>

\* on_list_view_highlighted on the commands list
highlight_cmd ==
    /\ Idle
    /\ \E idx \in 0..(Len(filtered_cmds(cmd_rows, search_value)) - 1) :
           SetView(set_selected_cmd(CurrentView, search_value, idx))
    /\ UNCHANGED <<store, context, session, oob, search_value, modal>>

input_changed_keep(v, value) ==
    IF filtered_cmds(v.cmd_rows, value) # <<>> THEN set_selected_cmd(v, value, 0) ELSE v

\* the session's fields after the search input changed to value
input_changed(v, value) ==
    IF filtered_cmds(v.cmd_rows, value) # <<>>
    THEN set_selected_cmd(v, value, 0)
    ELSE [v EXCEPT !.selected_cmd = <<>>]

on_input_changed ==
    /\ Idle
    /\ \E value \in SearchTexts :
           /\ value # search_value
           /\ search_value' = value
           /\ SetView(input_changed(CurrentView, value))
    /\ UNCHANGED <<store, context, session, oob, modal>>

action_add_tool ==
    /\ Idle
    /\ modal' = Modal("ToolForm", 0, <<>>)
    /\ UNCHANGED <<store, context, session, oob, viewvars, search_value>>

\* the store after the worker of action_add_tool ran on the submitted fields
add_tool_worker(s, name, desc, tags) ==
    LET u == db_upsert_tool(db(s), name, desc, form_tags(tags)) IN
    [store |-> Commit(s, u.conn), err |-> u.conn.exc, id |-> u.id]

\* the session's fields after the worker reloaded the tools and selected
\* the row of the upserted tool
tool_saved(r, v, value) ==
    select_tool_id(r.store, load_tools(r.store, v, value), value, r.id)

ToolForm_save ==
    /\ session = "running" /\ modal.kind = "ToolForm"
    /\ \E name_in \in ToolFormNames, desc_in \in Descriptions, tags_in \in ToolFormTags :
           LET name == strip(name_in)
               r == add_tool_worker(store, name, strip(desc_in), tags_in) IN
           IF name = <<>>
           THEN UNCHANGED <<store, viewvars>>
           ELSE /\ WithinBounds(r.store)
                /\ store' = r.store
                /\ SetView(tool_saved(r, CurrentView, search_value))
    /\ modal' = NoModal
    /\ UNCHANGED <<context, session, oob, search_value>>

action_add_cmd ==
    /\ Idle
    /\ selected_tool # <<>>
    /\ modal' = Modal("CmdFormAdd", selected_tool[1].id, <<>>)
    /\ UNCHANGED <<store, context, session, oob, viewvars, search_value>>

action_edit_cmd ==
    /\ Idle
    /\ selected_tool # <<>> /\ selected_cmd # <<>>
    /\ modal' = Modal("CmdFormEdit", selected_tool[1].id, selected_cmd[1].name)
    /\ UNCHANGED <<store, context, session, oob, viewvars, search_value>>

\* the store after the worker of action_add_cmd / action_edit_cmd ran
cmd_worker(s, tool_id, name, desc, snippet) ==
    Result(s, db_upsert_cmd(db(s), tool_id, name, desc, snippet))

\* Save on the CmdForm of add or edit; an exception in the worker ends the
\* application
CmdForm_save ==
    /\ session = "running" /\ modal.kind \in {"CmdFormAdd", "CmdFormEdit"}
    /\ \E name_in \in CmdFormNames, text \in CmdTexts :
           LET name == strip(name_in)
               r == cmd_worker(store, modal.tool_id, name, strip(text[1]), rstrip(text[2])) IN
           IF name = <<>>
           THEN /\ modal' = NoModal
                /\ UNCHANGED <<store, session, viewvars, search_value>>
           ELSE IF r.err # ""
           THEN /\ Exit("crashed")
                /\ UNCHANGED store
           ELSE /\ WithinBounds(r.store)
                /\ store' = r.store
                /\ SetView(load_cmds(r.store, CurrentView, search_value))
                /\ modal' = NoModal
                /\ UNCHANGED <<session, search_value>>
    /\ UNCHANGED <<context, oob>>

action_delete_cmd ==
    /\ Idle
    /\ selected_tool # <<>> /\ selected_cmd # <<>>
    /\ modal' = Modal("ConfirmDelete", selected_tool[1].id, selected_cmd[1].name)
    /\ UNCHANGED <<store, context, session, oob, viewvars, search_value>>

delete_worker(s, tool_id, name) == Result(s, db_delete_cmd(db(s), tool_id, name))

Confirm_delete_yes ==
    /\ session = "running" /\ modal.kind = "ConfirmDelete"
    /\ LET r == delete_worker(store, modal.tool_id, modal.name) IN
           /\ store' = r.store
           /\ SetView(load_cmds(r.store, CurrentView, search_value))
    /\ modal' = NoModal
    /\ UNCHANGED <<context, session, oob, search_value>>

action_exec_snippet ==
    /\ Idle
    /\ selected_cmd # <<>> /\ selected_cmd[1].snippet # <<>>
    /\ modal' = Modal("ConfirmExec", 0, <<>>)
    /\ UNCHANGED <<store, context, session, oob, viewvars, search_value>>

\* the worker of action_exec_snippet after Confirm returned ok: the child's
\* CalledProcessError is caught and dropped, the action reports no status
exec_worker(snip, ok, status) ==
    IF ~ ok THEN Outcome(<<>>, TRUE, <<>>, <<>>)
    ELSE Outcome(<<>>, TRUE, <<snip>>, <<>>)

\* Yes on the execute confirmation: the snippet runs in a child process,
\* which is outside the store and the session
Confirm_exec_yes ==
    /\ session = "running" /\ modal.kind = "ConfirmExec"
    /\ modal' = NoModal
    /\ UNCHANGED <<store, context, session, oob, viewvars, search_value>>

Modal_cancel_reload ==
    /\ session = "running" /\ modal.kind # "none"
    /\ modal' = NoModal
    /\ SetView(load_cmds(store, CurrentView, search_value))
    /\ UNCHANGED <<store, context, session, oob, search_value>>

\* Cancel on a form, No on a confirmation
Modal_cancel ==
    /\ session = "running" /\ modal.kind # "none"
    /\ modal' = NoModal
    /\ UNCHANGED <<store, context, session, oob, viewvars, search_value>>

\* print the selected snippet and leave
action_print_snippet ==
    /\ Idle
    /\ selected_cmd # <<>> /\ selected_cmd[1].snippet # <<>>
    /\ Exit("off")
    /\ UNCHANGED <<store, context, oob>>

Session ==
    \/ tui
    \/ action_quit
    \/ action_reload
    \/ highlight_tool
    \/ highlight_cmd
    \/ on_input_changed
    \/ action_add_tool
    \/ ToolForm_save
    \/ action_add_cmd
    \/ action_edit_cmd
    \/ CmdForm_save
    \/ action_delete_cmd
    \/ Confirm_delete_yes
    \/ action_exec_snippet
    \/ Confirm_exec_yes
    \/ Modal_cancel
    \/ action_print_snippet

(***************************************************************************)
(* Spec: the repository alone, every command from a shell.                 *)
(* SpecSession: the session, with out-of-band commands while it is open.   *)
(***************************************************************************)
Next == Repository

Spec == Init /\ [][Next]_vars

OutOfBand ==
    /\ session = "running"
    /\ (Cmd_add_tool \/ Cmd_add_cmd \/ Cmd_rm_tool \/ Cmd_rm_cmd \/ Cmd_import_toml)

NextSession == Session \/ OutOfBand

SpecSession == Init /\ [][NextSession]_vars

(***************************************************************************)
(* Properties.  A property of an operation is stated on the operation's    *)
(* result in every reachable state, for every input.                       *)
(***************************************************************************)
ToolsNamed(s, name) == {r \in s.tools : r.name = name}

TagNamesOf(s, tool_id) == {g.name : g \in TagRowsOf(s, tool_id)}

CommandsKeyed(s, tool_id, name) == {c \in s.commands : c.tool_id = tool_id /\ c.name = name}

\* descriptions a property tries: "", "d" and "e"
AnyDescriptions == Descriptions \cup {<<101>>}

\* tool names a property tries: a, A and one that no command ever adds, b
AnyToolNames == ToolNames \cup {<<98>>}

\* description and snippet of a command: each empty or not
AnyCmdTexts == {<<>>, <<100>>} \X {<<>>, <<115>>}

\* C1: UpsertTool (add-tool, use) on an existing name replaces the stored
\* description exactly when the supplied one is non-empty, keeps it as it
\* was otherwise, and in both cases adds no tool row.
C1_UpsertToolDescription ==
    \A name \in ToolNames, description \in AnyDescriptions, tags \in TagLists :
        \A old \in ToolsNamed(store, name) :
            \A r \in {add_tool(store, name, description, tags),
                      use_tool(store, name, description, tags)} :
                /\ r.err = ""
                /\ Cardinality(r.store.tools) = Cardinality(store.tools)
                /\ ToolsNamed(r.store, name) =
                       {[old EXCEPT !.description =
                             IF description # <<>> THEN description ELSE old.description]}

\* a stored tool with a description, which an empty description leaves and
\* "e" replaces
C1_Witness ==
    \E t \in store.tools :
        /\ t.description # <<>>
        /\ add_tool(store, t.name, <<>>, <<>>).store = store
        /\ ToolsNamed(add_tool(store, t.name, <<101>>, <<>>).store, t.name)
               = {[t EXCEPT !.description = <<101>>]}

\* C2: while the Add tool form is up, whatever is submitted, the store the
\* session's worker leaves equals the store UpsertTool (add-tool) leaves
\* for the same name, description and tags.
C2_SessionAddToolIsUpsertTool ==
    (session = "running" /\ modal.kind = "ToolForm") =>
        \A name_in \in ToolFormNames, desc_in \in Descriptions, tags_in \in ToolFormTags :
            strip(name_in) # <<>> =>
                add_tool_worker(store, strip(name_in), strip(desc_in), tags_in).store
                    = add_tool(store, strip(name_in), strip(desc_in), form_tags(tags_in)).store

\* C3: no two tools have the same name; names are compared by case, so
\* upserting a name (add-tool or the session's Add tool) succeeds, leaves
\* exactly one tool of that name, keeps every tool of another name, also
\* one that differs in case only, and adds a row when the name is new.
C3_ToolNamesUnique ==
    /\ \A r1, r2 \in store.tools : r1.name = r2.name => r1 = r2
    /\ \A name \in ToolNames, description \in Descriptions :
           /\ add_tool(store, name, description, <<>>).err = ""
           /\ add_tool_worker(store, name, description, <<>>).err = ""
           /\ \A after \in {add_tool(store, name, description, <<>>).store,
                            add_tool_worker(store, name, description, <<>>).store} :
                  /\ Cardinality(ToolsNamed(after, name)) = 1
                  /\ \A o \in store.tools : o.name # name => o \in after.tools
                  /\ ToolsNamed(store, name) = {} =>
                         Cardinality(after.tools) = Cardinality(store.tools) + 1

\* two tools whose names differ in case only
C3_Witness ==
    \E r1, r2 \in store.tools : r1.name # r2.name /\ lower(r1.name) = lower(r2.name)

\* C4: a tool and a tag have at most one association row; attaching tags
\* that are all attached already leaves the store as it was, and after
\* attaching a list (the same tag twice in it or not) each of its tags is
\* attached exactly once.
C4_OneAssociationPerToolAndTag ==
    /\ \A row \in DOMAIN store.tool_tags : CopiesIn(row, store.tool_tags) = 1
    /\ \A t \in store.tools, tags \in TagLists :
           LET after == Commit(store, attach_tags(db(store), t.id, tags))
               named == {strip(tags[i]) : i \in 1..Len(tags)} \ {<<>>} IN
           /\ \A row \in DOMAIN after.tool_tags : CopiesIn(row, after.tool_tags) = 1
           /\ named \subseteq TagNamesOf(store, t.id) => after = store
           /\ named \subseteq TagNamesOf(after, t.id)

\* a tool that has tag x, to which x is attached twice more
C4_Witness ==
    \E t \in store.tools :
        /\ <<120>> \in TagNamesOf(store, t.id)
        /\ Commit(store, attach_tags(db(store), t.id, <<<<120>>, <<120>>>>)) = store

\* C5: UpsertTool (add-tool, use, qtool, the session's Add tool) removes no
\* tag association: every tool has afterwards all the tags it had before.
C5_UpsertToolKeepsTags ==
    \A t \in store.tools :
        LET kept(after) == TagNamesOf(store, t.id) \subseteq TagNamesOf(after, t.id) IN
        /\ \A name \in ToolNames, description \in Descriptions, tags \in TagLists :
               /\ kept(add_tool(store, name, description, tags).store)
               /\ kept(use_tool(store, name, description, tags).store)
        /\ \A spec \in QtoolSpecs : kept(qtool(store, spec).store)
        /\ \A name \in ToolNames, description \in Descriptions, tags_in \in ToolFormTags :
               kept(add_tool_worker(store, name, description, tags_in).store)

\* a tool with two tags, upserted with no tag and with one of them
C5_Witness ==
    \E t \in store.tools :
        /\ TagNamesOf(store, t.id) = {<<120>>, <<121>>}
        /\ TagNamesOf(add_tool(store, t.name, <<100>>, <<>>).store, t.id) = {<<120>>, <<121>>}
        /\ TagNamesOf(add_tool(store, t.name, <<>>, <<<<120>>>>).store, t.id)
               = {<<120>>, <<121>>}

\* C6: after DeleteTool(name) the store has no tool of that name, no
\* command and no tag association of it; show, search and the snapshot
\* return nothing for it; the tool added again has no command and no tag.
C6_DeleteToolCascades ==
    \A name \in ToolNames :
        LET gone == {t.id : t \in ToolsNamed(store, name)}
            after == rm_tool(store, name).store
            rows == search(after, <<>>, <<>>, <<>>, <<>>, FALSE)
            catalog == build_catalog(db(after), <<>>, <<>>) IN
        /\ ToolsNamed(after, name) = {}
        /\ \A c \in after.commands : c.tool_id \notin gone
        /\ \A row \in DOMAIN after.tool_tags : row.tool_id \notin gone
        /\ ~ show_tool(after, name).found
        /\ \A i \in 1..Len(rows) : rows[i].tool # name
        /\ search(after, <<>>, <<>>, name, <<>>, FALSE) = <<>>
        /\ \A i \in 1..Len(catalog) : catalog[i].tool # name
        /\ build_catalog(db(after), name, <<>>) = <<>>
        /\ \A description \in Descriptions :
               LET again == show_tool(add_tool(after, name, description, <<>>).store, name) IN
               again.found /\ again.tags = <<>> /\ again.cmds = <<>>

\* a tool that has a command and a tag, which deleting it removes
C6_Witness ==
    \E t \in store.tools :
        /\ \E c \in store.commands : c.tool_id = t.id
        /\ TagNamesOf(store, t.id) # {}
        /\ rm_tool(store, t.name).store.commands = {}
        /\ rm_tool(store, t.name).store.tool_tags = EmptyBag

\* C7: every command row refers to a stored tool, and every tag
\* association to a stored tool and a stored tag.
C7_NoOrphans ==
    /\ \A c \in store.commands : \E t \in store.tools : t.id = c.tool_id
    /\ \A row \in DOMAIN store.tool_tags :
           /\ \E t \in store.tools : t.id = row.tool_id
           /\ \E g \in store.tags : g.id = row.tag_id

\* the session saved a command for a tool that was deleted out-of-band:
\* the insert was refused
C7_Witness == session = "crashed" /\ oob > 0

\* C8: add-cmd, cmd (with --tool or with the default tool) and qcmd on a
\* tool name that is not stored fail with NotFound and leave the store as
\* it was.
C8_UnknownToolNotFound ==
    LET refused == [store |-> store, err |-> "NotFound"] IN
    /\ \A tool \in AnyToolNames, name \in CmdNames, text \in AnyCmdTexts :
           ToolsNamed(store, tool) = {} =>
               /\ add_cmd(store, tool, name, text[1], text[2]) = refused
               /\ cmd_short(store, context, name, text[1], text[2], tool) = refused
               /\ get_context(context) = tool =>
                      cmd_short(store, context, name, text[1], text[2], <<>>) = refused
    /\ \A spec \in QcmdSpecs, tool \in {<<>>} \cup AnyToolNames :
           LET t == qcmd_tool(spec, tool, context) IN
           (find(spec, 58, 1) # 0 /\ t # <<>> /\ ToolsNamed(store, t) = {}) =>
               qcmd(store, context, spec, tool) = refused

\* the default tool is not stored (it was deleted), another tool is
C8_Witness ==
    /\ get_context(context) # <<>>
    /\ ToolsNamed(store, get_context(context)) = {}
    /\ store.tools # {}
    /\ cmd_short(store, context, <<103>>, <<>>, <<>>, <<>>).err = "NotFound"

\* C9: a tool has at most one command of a name; UpsertCommand (add-cmd,
\* the session's form) on a stored tool succeeds and leaves exactly one row
\* of that tool and name, the row that was there if there was one, with
\* exactly the supplied description and snippet, and changes no other row.
C9_CommandUniquePerTool ==
    /\ \A c1, c2 \in store.commands :
           (c1.tool_id = c2.tool_id /\ c1.name = c2.name) => c1 = c2
    /\ \A t \in store.tools, name \in CmdNames, text \in AnyCmdTexts :
           \A r \in {add_cmd(store, t.name, name, text[1], text[2]),
                     cmd_worker(store, t.id, name, text[1], text[2])} :
               /\ r.err = ""
               /\ Cardinality(CommandsKeyed(r.store, t.id, name)) = 1
               /\ \A c \in CommandsKeyed(r.store, t.id, name) :
                      /\ c.description = text[1]
                      /\ c.snippet = text[2]
                      /\ \A o \in CommandsKeyed(store, t.id, name) : o.id = c.id
               /\ r.store.commands \ CommandsKeyed(r.store, t.id, name)
                      = store.commands \ CommandsKeyed(store, t.id, name)

\* a command with a description and a snippet, which an upsert with empty
\* ones empties in place, and whose name another tool gets a command of
C9_Witness ==
    \E t \in store.tools, c \in store.commands :
        /\ c.tool_id = t.id /\ c.description # <<>> /\ c.snippet # <<>>
        /\ add_cmd(store, t.name, c.name, <<>>, <<>>).store.commands
               = (store.commands \ {c}) \cup {[c EXCEPT !.description = <<>>, !.snippet = <<>>]}
        /\ \E u \in store.tools :
               /\ u # t
               /\ {k.tool_id : k \in {x \in add_cmd(store, u.name, c.name, <<>>, <<>>).store.commands :
                                           x.name = c.name}} = {t.id, u.id}

\* C10: rm-tool, rm-cmd and the session's delete report no error; on a
\* tool or a command that is not stored, or a command of a tool that is not
\* stored, they leave the store as it was; a second delete changes nothing.
C10_DeleteIdempotent ==
    /\ \A name \in AnyToolNames :
           LET r == rm_tool(store, name) IN
           /\ r.err = ""
           /\ rm_tool(r.store, name) = r
           /\ ToolsNamed(store, name) = {} => r.store = store
    /\ \A tool \in AnyToolNames, name \in CmdNames :
           LET r == rm_cmd(store, tool, name) IN
           /\ r.err = ""
           /\ rm_cmd(r.store, tool, name) = r
           /\ (\A t \in ToolsNamed(store, tool) : CommandsKeyed(store, t.id, name) = {})
                  => r.store = store
    /\ \A tool_id \in 0..(MaxId + 1), name \in CmdNames :
           LET r == delete_worker(store, tool_id, name) IN
           /\ r.err = ""
           /\ delete_worker(r.store, tool_id, name) = r
           /\ CommandsKeyed(store, tool_id, name) = {} => r.store = store

\* a stored command whose name is deleted under a tool that is not stored
\* (nothing happens) and under its own tool (it goes, once)
C10_Witness ==
    \E t \in store.tools, c \in store.commands :
        /\ c.tool_id = t.id
        /\ rm_cmd(store, <<98>>, c.name).store = store
        /\ rm_cmd(store, t.name, c.name).store.commands = store.commands \ {c}

\* tag lists of a document: text, or with a number after a text
AnyTagLists == TagLists \cup {<<<<120>>, NotText>>}

\* C11: an operation that fails leaves the store exactly as it was before
\* it began: an import whose later record is malformed, an upsert of a tool
\* that fails while attaching its tags, an upsert of a command that is
\* refused, in the repository and in the session.
C11_FailedOperationLeavesStore ==
    /\ \A data \in ImportDocs :
           import_toml(store, data).err # "" => import_toml(store, data).store = store
    /\ \A name \in ToolNames, description \in Descriptions, tags \in AnyTagLists :
           /\ add_tool(store, name, description, tags).err # ""
                  => add_tool(store, name, description, tags).store = store
           /\ use_tool(store, name, description, tags).err # ""
                  => use_tool(store, name, description, tags).store = store
    /\ \A tool \in AnyToolNames, name \in CmdNames, text \in CmdTexts :
           add_cmd(store, tool, name, text[1], text[2]).err # ""
               => add_cmd(store, tool, name, text[1], text[2]).store = store
    /\ \A name \in ToolNames, description \in Descriptions, tags_in \in ToolFormTags :
           add_tool_worker(store, name, description, tags_in).err # ""
               => add_tool_worker(store, name, description, tags_in).store = store
    /\ \A tool_id \in 0..(MaxId + 1), name \in CmdNames, text \in CmdTexts :
           cmd_worker(store, tool_id, name, text[1], text[2]).err # ""
               => cmd_worker(store, tool_id, name, text[1], text[2]).store = store

\* a store with a tool, on which an import fails at its second record after
\* its first changed the tools table inside the transaction, and on which
\* add-tool fails at the tags after it inserted the tool
C11_Witness ==
    /\ store.tools # {}
    /\ \E data \in ImportDocs :
           /\ import_toml(store, data).err = "KeyError"
           /\ import_tools(db(store), data).tools # store.tools
           /\ import_toml(store, data).store = store
    /\ \E name \in ToolNames :
           /\ ToolsNamed(store, name) = {}
           /\ add_tool(store, name, <<>>, <<<<120>>, NotText>>).err = "AttributeError"
           /\ add_tool(store, name, <<>>, <<<<120>>, NotText>>).store = store

\* the row of the tools list as selected_tool holds it
SelectedOf(row) == << [id |-> row.id, name |-> row.name] >>

\* C12: selecting the tool at a valid index i makes selected_tool the i-th
\* tool of the list and cmd_rows the store's commands of that tool by name,
\* and selected_cmd the first command that passes the filter, or none when
\* no command of the tool passes it.
C12_SelectTool ==
    Idle =>
        \A idx \in 0..(Len(tool_rows) - 1) :
            LET v == set_selected_tool(store, CurrentView, search_value, idx)
                rows == filtered_cmds(v.cmd_rows, search_value) IN
            /\ v.tool_rows = tool_rows
            /\ v.selected_tool = SelectedOf(tool_rows[idx + 1])
            /\ v.cmd_rows = db_fetch_cmds(db(store), tool_rows[idx + 1].id)
            /\ v.selected_cmd = IF rows # <<>> THEN <<rows[1]>> ELSE <<>>

\* C13: changing the filter text leaves tool_rows, selected_tool and
\* cmd_rows as they are and makes selected_cmd the first command of cmd_rows
\* that passes the new filter, or none when no command passes it, whatever
\* was selected before.
C13_ChangeFilter ==
    Idle =>
        \A value \in SearchTexts \cup {<<103>>, <<32>>} :
            LET v == input_changed(CurrentView, value)
                rows == filtered_cmds(cmd_rows, value) IN
            /\ v.tool_rows = tool_rows /\ v.selected_tool = selected_tool
            /\ v.cmd_rows = cmd_rows
            /\ v.selected_cmd = IF rows # <<>> THEN <<rows[1]>> ELSE <<>>

\* the second of two commands is selected; the filter "D s" passes the
\* first only, which becomes the selection, and the filter "x" passes none
C13_Witness ==
    /\ Idle /\ Len(cmd_rows) = 2 /\ selected_cmd = <<cmd_rows[2]>>
    /\ input_changed(CurrentView, <<68, 32, 115>>).selected_cmd = <<cmd_rows[1]>>
    /\ input_changed(CurrentView, <<120>>).selected_cmd = <<>>

\* C14: a delete confirmation is open only for the command that is selected
\* in the filtered list of the selected tool (none is open when that list is
\* empty), and a yes removes exactly the row of that tool and name and no
\* other command.
C14_DeleteSelectedCommand ==
    (session = "running" /\ modal.kind = "ConfirmDelete") =>
        /\ selected_tool # <<>> /\ selected_tool[1].id = modal.tool_id
        /\ selected_cmd # <<>> /\ selected_cmd[1].name = modal.name
        /\ \E i \in 1..Len(filtered_cmds(cmd_rows, search_value)) :
               filtered_cmds(cmd_rows, search_value)[i] = selected_cmd[1]
        /\ delete_worker(store, modal.tool_id, modal.name).store.commands
               = store.commands \ CommandsKeyed(store, modal.tool_id, modal.name)

C16_AddToolSelectsTheTool ==
    (session = "running" /\ modal.kind = "ToolForm") =>
        \A name_in \in ToolFormNames \ {<<>>},
           desc_in \in Descriptions, tags_in \in ToolFormTags :
            LET name == strip(name_in)
                r == add_tool_worker(store, name, strip(desc_in), tags_in)
                v == tool_saved(r, CurrentView, search_value) IN
            /\ v.tool_rows = db_fetch_tools(db(r.store))
            /\ \E t \in r.store.tools :
                   /\ t.name = name
                   /\ v.selected_tool = <<[id |-> t.id, name |-> name]>>
                   /\ v.cmd_rows = db_fetch_cmds(db(r.store), t.id)

\* the form is up while A and a are stored and a has a command: saving a
\* selects a, the second row, and loads its command
C16_Witness ==
    /\ session = "running" /\ modal.kind = "ToolForm"
    /\ ToolsNamed(store, <<65>>) # {}
    /\ LET v == tool_saved(add_tool_worker(store, <<97>>, <<>>, <<>>),
                           CurrentView, search_value) IN
       /\ Len(v.tool_rows) = 2
       /\ v.selected_tool = <<[id |-> v.tool_rows[2].id, name |-> <<97>>]>>
       /\ v.cmd_rows # <<>>

\* C17: a step that opens a modal and a step that cancels one (Cancel on a
\* form, No on a confirmation) leave the store, the tool list, the selected
\* tool, the command list, the selected command and the filter text as they
\* were; so after a cancel they are what they were before the action.
C17_CancelChangesNothing ==
    [][((modal.kind = "none" /\ modal'.kind # "none") \/ Modal_cancel)
           => (store' = store /\ tool_rows' = tool_rows /\ selected_tool' = selected_tool
               /\ cmd_rows' = cmd_rows /\ selected_cmd' = selected_cmd
               /\ search_value' = search_value /\ session' = session)]_vars

\* the delete confirmation is up for a stored command that a yes would
\* remove, with a list that a reload would change
C17_Witness ==
    /\ session = "running" /\ modal.kind = "ConfirmDelete"
    /\ delete_worker(store, modal.tool_id, modal.name).store # store
    /\ load_cmds(store, CurrentView, search_value) # CurrentView

\* C18: while a modal is up, a step either dismisses it or leaves it and
\* every field of the session as they are: no selection, filter, reload or
\* exit happens and no second modal opens, so an edit's store update and
\* reload are one step that no other session action interleaves with.
C18_ModalBlocksSession ==
    [][(session = "running" /\ modal.kind # "none")
           => \/ modal' = NoModal
              \/ /\ modal' = modal /\ session' = session
                 /\ tool_rows' = tool_rows /\ selected_tool' = selected_tool
                 /\ cmd_rows' = cmd_rows /\ selected_cmd' = selected_cmd
                 /\ search_value' = search_value]_vars

\* the edit form is up while two tools are listed, a command is selected
\* and the filter is set: every binding and list of the screen below has
\* something to act on
C18_Witness ==
    /\ session = "running" /\ modal.kind = "CmdFormEdit"
    /\ Len(tool_rows) = 2 /\ selected_cmd # <<>> /\ selected_cmd[1].snippet # <<>>
    /\ search_value # <<>>

\* C19: on the run path and on fuzzy --choose a stored snippet is executed
\* only when --exec was given and the confirmation was asked and answered
\* yes; without --exec the snippet is printed and nothing is executed, and
\* a confirmation answered no executes nothing.
C19_ExecutionNeedsConfirmation ==
    \A exec_ \in BOOLEAN, yes \in BOOLEAN, answer \in BOOLEAN :
        LET gated(r, snippet) ==
                /\ r.executed # <<>> => (exec_ /\ r.asked /\ answer)
                /\ ~ exec_ => (r.executed = <<>> /\ r.printed = <<snippet>>)
                /\ (r.asked /\ ~ answer) => r.executed = <<>>
            catalog == build_catalog(db(store), <<>>, <<>>)
            ranked == fuzzy_ranked(catalog, <<>>, Len(catalog), <<>>) IN
        /\ \A t \in store.tools, c \in store.commands :
               c.tool_id = t.id =>
                   gated(run_snippet(store, t.name, c.name, exec_, yes, answer, 0), c.snippet)
        /\ \A pick \in 1..Len(catalog) :
               gated(fuzzy_choose(catalog, ranked, pick, FALSE, exec_, yes, answer, 0).out,
                     catalog[pick].snippet)

\* C20: when an executed snippet exits with a non-zero status, the
\* operation that executed it reports that status: run and fuzzy --choose
\* exit with it, and the session's exec action reports it.
C20_ExitStatusPropagated ==
    \A status \in ExitStatuses \ {0} :
        LET catalog == build_catalog(db(store), <<>>, <<>>)
            ranked == fuzzy_ranked(catalog, <<>>, Len(catalog), <<>>) IN
        /\ \A t \in store.tools, c \in store.commands :
               c.tool_id = t.id =>
                   run_snippet(store, t.name, c.name, TRUE, FALSE, TRUE, status).exit
                       = <<status>>
        /\ \A pick \in 1..Len(catalog) :
               fuzzy_choose(catalog, ranked, pick, FALSE, TRUE, FALSE, TRUE, status).out.exit
                   = <<status>>
        /\ (session = "running" /\ modal.kind = "ConfirmExec") =>
               exec_worker(selected_cmd[1].snippet, TRUE, status).exit = <<status>>

\* C21: after Reload the tool list holds exactly the tools of the store, each
\* once, in ascending order of name, whatever the list held before: tools
\* added, changed or deleted from a shell since the last load are reflected,
\* and the list is empty when the store has become empty.
C21_ReloadShowsStore ==
    Idle =>
        LET rows == load_tools(store, CurrentView, search_value).tool_rows IN
        /\ Len(rows) = Cardinality(store.tools)
        /\ {rows[i] : i \in 1..Len(rows)} = store.tools
        /\ \A i \in 1..Len(rows), j \in 1..Len(rows) :
               i < j => StrLess(rows[i].name, rows[j].name)

\* the list shows a tool that a shell has deleted since, leaving the store
\* empty: the reload empties the list
C21_Witness ==
    /\ Idle /\ tool_rows # <<>> /\ store.tools = {}
    /\ load_tools(store, CurrentView, search_value).tool_rows = <<>>

\* C22: a session action whose repository call fails does not end the
\* session: when a command form is saved for a tool that is no longer
\* stored, the session keeps running, the store and every field of the
\* session keep the values they had before the action, and only the form
\* closes.
C22_FailedActionKeepsSession ==
    [][(/\ session = "running" /\ modal.kind \in {"CmdFormAdd", "CmdFormEdit"}
        /\ ~ \E t \in store.tools : t.id = modal.tool_id
        /\ modal' # modal)
           => (/\ session' = "running" /\ store' = store
               /\ tool_rows' = tool_rows /\ selected_tool' = selected_tool
               /\ cmd_rows' = cmd_rows /\ selected_cmd' = selected_cmd
               /\ search_value' = search_value)]_vars

(***************************************************************************)
(* Start-up.  An installation has or lacks each optional package.  Every   *)
(* command is `python vman.py COMMAND ...`: the module body runs from top  *)
(* to bottom, then typer dispatches to the command's function.             *)
(***************************************************************************)
Installations == [rapidfuzz : BOOLEAN, textual : BOOLEAN]

\* the guarded imports: HAS_RF and HAS_TEXTUAL
HAS_RF(inst) == inst.rapidfuzz

HAS_TEXTUAL(inst) == inst.textual

\* the module body: the class statements of Confirm, CmdForm, ToolForm and
\* VmanTUI evaluate ModalScreen[...] and App, names that only the import of
\* textual binds; "" when the body runs to its end
load_module(inst) == IF HAS_TEXTUAL(inst) THEN "" ELSE "NameError"

\* the capability check at the head of fuzzy and of tui: the command exits
\* with a message that names the missing package
fuzzy_capability(inst) == IF ~ HAS_RF(inst) THEN "ExternalToolUnavailable" ELSE ""

tui_capability(inst) == IF ~ HAS_TEXTUAL(inst) THEN "ExternalToolUnavailable" ELSE ""

\* what stops COMMAND before its body runs, "" when it starts
startup(inst, command) ==
    IF load_module(inst) # "" THEN load_module(inst)
    ELSE IF command = "fuzzy" THEN fuzzy_capability(inst)
    ELSE IF command = "tui" THEN tui_capability(inst)
    ELSE ""

\* a command on store s whose body would return r
invoke(inst, command, s, r) ==
    IF startup(inst, command) = "" THEN r ELSE [store |-> s, err |-> startup(inst, command)]

\* C23: in every installation a command that needs an absent package ends
\* with ExternalToolUnavailable and every other command starts and works:
\* without rapidfuzz only fuzzy is refused, without textual only tui is
\* refused, and add-tool, add-cmd, rm-tool, rm-cmd and the read commands
\* act on the store as they do with both packages installed.
C23_AbsentBackendBreaksNothingElse ==
    \A inst \in Installations :
        /\ startup(inst, "fuzzy")
               = IF inst.rapidfuzz THEN "" ELSE "ExternalToolUnavailable"
        /\ startup(inst, "tui")
               = IF inst.textual THEN "" ELSE "ExternalToolUnavailable"
        /\ \A command \in {"list", "show", "search", "run"} : startup(inst, command) = ""
        /\ \A name \in ToolNames :
               /\ invoke(inst, "add-tool", store, add_tool(store, name, <<>>, <<>>))
                      = add_tool(store, name, <<>>, <<>>)
               /\ invoke(inst, "rm-tool", store, rm_tool(store, name))
                      = rm_tool(store, name)
               /\ \A cmd \in CmdNames :
                      /\ invoke(inst, "add-cmd", store, add_cmd(store, name, cmd, <<>>, <<>>))
                             = add_cmd(store, name, cmd, <<>>, <<>>)
                      /\ invoke(inst, "rm-cmd", store, rm_cmd(store, name, cmd))
                             = rm_cmd(store, name, cmd)

\* the snapshot of the whole store, and the scorers of its choices
Snapshot == build_catalog(db(store), <<>>, <<>>)

Scorers == [{Snapshot[i].search : i \in 1..Len(Snapshot)} -> Scores]

\* C24: with a query, whatever the scores, the ranked list holds
\* min(N, size of the snapshot) entries of the snapshot, each once and with
\* its score; a listed entry has a higher score than the next, or the same
\* score and a lower index; and an entry left out has a lower score than
\* every listed one, or the same score and a higher index.
C24_RankedByScoreThenIndex ==
    \A scorer \in Scorers, N \in 0..(Len(Snapshot) + 1) :
        LET ranked == fuzzy_ranked(Snapshot, <<103>>, N, scorer)
            listed == {ranked[k].idx : k \in 1..Len(ranked)}
            before(m, o) == m.score > o.score \/ (m.score = o.score /\ m.idx < o.idx) IN
        /\ Len(ranked) = IF N < Len(Snapshot) THEN N ELSE Len(Snapshot)
        /\ Cardinality(listed) = Len(ranked)
        /\ \A k \in 1..Len(ranked) :
               /\ ranked[k].idx \in 1..Len(Snapshot)
               /\ ranked[k].score = scorer[Snapshot[ranked[k].idx].search]
        /\ \A k \in 1..Len(ranked), l \in 1..Len(ranked) :
               k < l => before(ranked[k], ranked[l])
        /\ \A i \in (1..Len(Snapshot)) \ listed, k \in 1..Len(ranked) :
               before(ranked[k], [idx |-> i, score |-> scorer[Snapshot[i].search]])

\* two entries: with equal scores and N = 1 the first is kept, and with a
\* higher score the second is listed before the first
C24_Witness ==
    /\ Len(Snapshot) = 2
    /\ \E scorer \in Scorers :
           /\ scorer[Snapshot[1].search] = scorer[Snapshot[2].search]
           /\ fuzzy_ranked(Snapshot, <<103>>, 1, scorer) = <<[idx |-> 1, score |-> 50]>>
    /\ \E scorer \in Scorers :
           fuzzy_ranked(Snapshot, <<103>>, 2, scorer)
               = <<[idx |-> 2, score |-> 100], [idx |-> 1, score |-> 50]>>

\* C25: without a query the result is the first min(N, size) entries of the
\* snapshot in snapshot order, each with score 100, whatever a scorer would
\* give them, and it is empty when N is zero or negative.
C25_BrowseFirstN ==
    \A scorer \in Scorers, N \in (-1)..(Len(Snapshot) + 1) :
        LET ranked == fuzzy_ranked(Snapshot, <<>>, N, scorer) IN
        /\ Len(ranked) = IF N <= 0 THEN 0
                         ELSE IF N < Len(Snapshot) THEN N ELSE Len(Snapshot)
        /\ \A k \in 1..Len(ranked) : ranked[k] = [idx |-> k, score |-> 100]

\* two entries of which a scorer prefers the second: without a query N = 1
\* lists the first, N = 3 both in snapshot order, and N = -1 none
C25_Witness ==
    /\ Len(Snapshot) = 2
    /\ \E scorer \in Scorers :
           /\ scorer[Snapshot[1].search] < scorer[Snapshot[2].search]
           /\ fuzzy_ranked(Snapshot, <<>>, 1, scorer) = <<[idx |-> 1, score |-> 100]>>
           /\ fuzzy_ranked(Snapshot, <<>>, 3, scorer)
                  = <<[idx |-> 1, score |-> 100], [idx |-> 2, score |-> 100]>>
           /\ fuzzy_ranked(Snapshot, <<>>, -1, scorer) = <<>>

\* C26: picking position p of the ranked list succeeds exactly when
\* 1 <= p <= number of ranked results, and then the chosen entry is the one
\* the table shows in row p, and its snippet is what is copied, printed or
\* executed; any other p is refused with InvalidSelection and nothing is
\* printed, copied or executed.
C26_SelectByPosition ==
    \A scorer \in Scorers, query \in {<<>>, <<103>>}, N \in 0..(Len(Snapshot) + 1) :
        LET ranked == fuzzy_ranked(Snapshot, query, N, scorer)
            table == fuzzy_table(Snapshot, ranked) IN
        \A p \in (-1)..(Len(Snapshot) + 1), copy \in BOOLEAN, exec_ \in BOOLEAN :
            LET r == fuzzy_choose(Snapshot, ranked, p, copy, exec_, FALSE, TRUE, 0) IN
            IF 1 <= p /\ p <= Len(ranked)
            THEN /\ r.err = ""
                 /\ Len(r.chosen) = 1
                 /\ r.chosen[1].tool = table[p].tool /\ r.chosen[1].cmd = table[p].cmd
                 /\ r.copied = IF copy THEN <<r.chosen[1].snippet>> ELSE <<>>
                 /\ r.out.printed = IF exec_ THEN <<>> ELSE <<r.chosen[1].snippet>>
                 /\ r.out.executed = IF exec_ THEN <<r.chosen[1].snippet>> ELSE <<>>
            ELSE /\ r.err = "InvalidSelection"
                 /\ r.chosen = <<>> /\ r.copied = <<>>
                 /\ r.out.printed = <<>> /\ r.out.executed = <<>>

\* two entries ranked second first: position 1 chooses the second entry of
\* the snapshot, positions 0 and 3 are refused, and with N = 1 position 2 is
\* refused too
C26_Witness ==
    /\ Len(Snapshot) = 2
    /\ \E scorer \in Scorers :
           LET ranked == fuzzy_ranked(Snapshot, <<103>>, 2, scorer)
               short == fuzzy_ranked(Snapshot, <<103>>, 1, scorer) IN
           /\ ranked[1].idx = 2
           /\ fuzzy_choose(Snapshot, ranked, 1, FALSE, FALSE, FALSE, TRUE, 0).chosen
                  = <<Snapshot[2]>>
           /\ fuzzy_choose(Snapshot, ranked, 0, TRUE, TRUE, TRUE, TRUE, 0).err
                  = "InvalidSelection"
           /\ fuzzy_choose(Snapshot, ranked, 3, TRUE, TRUE, TRUE, TRUE, 0).err
                  = "InvalidSelection"
           /\ fuzzy_choose(Snapshot, short, 2, TRUE, TRUE, TRUE, TRUE, 0).err
                  = "InvalidSelection"

\* the restrictions of a snapshot or a query: none, or a name
TagOptions == {<<>>, <<120>>, <<121>>}

\* the tools that satisfy the restriction to a tool name and to a tag
MatchingTools(s, tool, tag) ==
    {t \in s.tools : /\ tool = <<>> \/ t.name = tool
                     /\ tag = <<>> \/ tag \in TagNamesOf(s, t.id)}

\* C27: under every tool and tag restriction the snapshot has exactly one
\* entry for each command stored under a tool that satisfies the
\* restriction, with that command's description and snippet, and no other
\* entry: no stored command of a matching tool is missing and a tool
\* without commands has no entry.
C27_SnapshotHoldsEveryCommand ==
    \A tool \in ToolOptions, tag \in TagOptions :
        LET catalog == build_catalog(db(store), tool, tag)
            matching == MatchingTools(store, tool, tag)
            entries(t, c) == {i \in 1..Len(catalog) :
                                 /\ catalog[i].tool = t.name /\ catalog[i].cmd = c.name
                                 /\ catalog[i].desc = c.description
                                 /\ catalog[i].snippet = c.snippet} IN
        /\ \A t \in matching, c \in store.commands :
               c.tool_id = t.id => Cardinality(entries(t, c)) = 1
        /\ \A i \in 1..Len(catalog) :
               \E t \in matching, c \in store.commands :
                   c.tool_id = t.id /\ i \in entries(t, c)

\* the same contents inserted in another order: row ids 1 and 2 of tools
\* and of commands exchanged
SwapId(i) == IF i = 1 THEN 2 ELSE IF i = 2 THEN 1 ELSE i

Renumbered(s) ==
    [tools |-> {[t EXCEPT !.id = SwapId(@)] : t \in s.tools},
     tags |-> s.tags,
     tool_tags |-> [x \in {[tool_id |-> SwapId(y.tool_id), tag_id |-> y.tag_id] :
                              y \in DOMAIN s.tool_tags}
                       |-> s.tool_tags[[tool_id |-> SwapId(x.tool_id), tag_id |-> x.tag_id]]],
     commands |-> {[c EXCEPT !.id = SwapId(@), !.tool_id = SwapId(@)] : c \in s.commands}]

\* C28: under every filter the rows of search and the entries of the
\* snapshot are in strictly ascending order of tool name and, within a
\* tool, of command name; and a store with the same contents under other
\* row ids (another order of insertion) gives the same sequences.
C28_OrderedByToolThenCommand ==
    \A tag \in TagOptions, tool \in ToolOptions :
        LET ascending(rows) ==
                \A i \in 1..Len(rows), j \in 1..Len(rows) :
                    i < j => \/ StrLess(rows[i].tool, rows[j].tool)
                             \/ /\ rows[i].tool = rows[j].tool
                                /\ StrLess(rows[i].cmd, rows[j].cmd)
            catalog == build_catalog(db(store), tool, tag) IN
        /\ ascending(catalog)
        /\ catalog = build_catalog(db(Renumbered(store)), tool, tag)
        /\ \A q \in {<<>>, <<115>>}, cmd \in {<<>>, <<103>>}, exact \in BOOLEAN :
               /\ ascending(search(store, q, tag, tool, cmd, exact))
               /\ search(store, q, tag, tool, cmd, exact)
                      = search(Renumbered(store), q, tag, tool, cmd, exact)

\* tool a was inserted before tool A and has a command: search lists A
\* before a, and the snapshot is the same under exchanged row ids
C28_Witness ==
    \E t \in store.tools, u \in store.tools, c \in store.commands :
        /\ t.id < u.id /\ StrLess(u.name, t.name) /\ c.tool_id = t.id /\ c.name # <<>>
        /\ LET rows == search(store, <<>>, <<>>, <<>>, <<>>, FALSE) IN
           /\ Len(rows) = 2 /\ rows[1].tool = u.name
           /\ rows[2].tool = t.name /\ rows[2].cmd = c.name
        /\ Renumbered(store) # store
        /\ Len(build_catalog(db(Renumbered(store)), <<>>, <<>>)) = 1

\* filter texts a property tries: "", " ", "D s", "s  G ", "x", "gd", "d x"
FilterTexts ==
    {<<>>, <<32>>, <<68, 32, 115>>, <<115, 32, 32, 71, 32>>, <<120>>,
     <<103, 100>>, <<100, 32, 120>>}

\* the same character up to the case of an ASCII letter
SameLetter(a, b) ==
    \/ a = b
    \/ a >= 65 /\ a <= 90 /\ b = a + 32
    \/ b >= 65 /\ b <= 90 /\ a = b + 32

\* the tokens of a text: its maximal runs of characters other than blanks,
\* as pairs of first and last position
TokensOf(text) ==
    {p \in (1..Len(text)) \X (1..Len(text)) :
        /\ p[1] <= p[2]
        /\ \A k \in p[1]..p[2] : text[k] # 32
        /\ p[1] = 1 \/ text[p[1] - 1] = 32
        /\ p[2] = Len(text) \/ text[p[2] + 1] = 32}

\* the token at positions p of text occurs in blob, letters compared
\* without case
OccursIn(text, p, blob) ==
    \E at \in 0..(Len(blob) - (p[2] - p[1] + 1)) :
        \A k \in 0..(p[2] - p[1]) : SameLetter(text[p[1] + k], blob[at + k + 1])

\* C30: the filtered list is the commands of cmd_rows, in their order, of
\* which the name, description and snippet joined by blanks contain every
\* token of the filter text, letters compared without case; a filter text
\* that is empty or all blanks keeps every command.
C30_LiveFilter ==
    \A value \in FilterTexts :
        LET blob(c) == c.name \o <<32>> \o c.description \o <<32>> \o c.snippet
            keeps(c) == \A p \in TokensOf(value) : OccursIn(value, p, blob(c))
            out == filtered_cmds(cmd_rows, value) IN
        /\ out = SelectSeq(cmd_rows, keeps)
        /\ TokensOf(value) = {} => out = cmd_rows

\* two commands are listed, of which only the second has description d and
\* snippet s: "D s" keeps the second only, "d x" none, and " " both
C30_Witness ==
    /\ Len(cmd_rows) = 2
    /\ filtered_cmds(cmd_rows, <<68, 32, 115>>) = <<cmd_rows[2]>>
    /\ filtered_cmds(cmd_rows, <<100, 32, 120>>) = <<>>
    /\ filtered_cmds(cmd_rows, <<32>>) = cmd_rows

\* part occurs in text, letters compared without case
CiContains(part, text) == part # <<>> /\ OccursIn(part, <<1, Len(part)>>, text)

\* the rows a query is to return: a tool that satisfies the tool and tag
\* restrictions with each of its commands, or alone (the command fields
\* empty) when it has none, that satisfy the text and command-name filters
QueryRows(s, q, tag, tool, cmd, exact) ==
    LET row(t, c) == [tool |-> t.name, cmd |-> c.name, snippet |-> c.snippet,
                      description |-> c.description]
        none == [name |-> <<>>, snippet |-> <<>>, description |-> <<>>]
        textOk(t, c) ==
            \/ q = <<>>
            \/ \E field \in {t.name, t.description, c.name, c.description, c.snippet} :
                   CiContains(q, field)
        cmdOk(c, stored) ==
            \/ cmd = <<>>
            \/ stored /\ (IF exact THEN c.name = cmd ELSE CiContains(cmd, c.name)) IN
    UNION {IF \E c \in s.commands : c.tool_id = t.id
           THEN {row(t, c) : c \in {x \in s.commands :
                                       x.tool_id = t.id /\ textOk(t, x) /\ cmdOk(x, TRUE)}}
           ELSE IF textOk(t, none) /\ cmdOk(none, FALSE) THEN {row(t, none)} ELSE {}
           : t \in MatchingTools(s, tool, tag)}

\* C31: search returns exactly the rows that satisfy every supplied filter,
\* each once: the text occurs without regard to case in the tool's name or
\* description or the command's name, description or snippet; the tool has
\* the given name; the tool carries the given tag; the command's name
\* contains the given text, or equals it in exact mode.  An absent filter
\* restricts nothing.
C31_QueryFilters ==
    \A q \in {<<>>, <<68>>, <<95>>}, tag \in TagOptions, tool \in ToolOptions,
       cmd \in {<<>>, <<71>>}, exact \in BOOLEAN :
        LET rows == search(store, q, tag, tool, cmd, exact) IN
        /\ {rows[i] : i \in 1..Len(rows)} = QueryRows(store, q, tag, tool, cmd, exact)
        /\ Len(rows) = Cardinality(QueryRows(store, q, tag, tool, cmd, exact))

\* C32: while the session runs, selected_cmd is none or one of the commands
\* of the filtered list of cmd_rows, the commands loaded for the selected
\* tool: never a command of a tool selected before, one the filter hides,
\* or one this session has deleted.
C32_SelectedCommandIsListed ==
    session = "running" =>
        \/ selected_cmd = <<>>
        \/ /\ selected_tool # <<>>
           /\ \E i \in 1..Len(filtered_cmds(cmd_rows, search_value)) :
                  filtered_cmds(cmd_rows, search_value)[i] = selected_cmd[1]

\* C33: while the session runs, selected_tool is none or the id and name of
\* a row of tool_rows; after a reload that finds the store empty, or without
\* the tool selected before, it does not name a tool absent from tool_rows.
C33_SelectedToolIsListed ==
    session = "running" =>
        \/ selected_tool = <<>>
        \/ \E i \in 1..Len(tool_rows) : selected_tool = SelectedOf(tool_rows[i])

\* C34: no stored tool and no stored command has the empty name, and an
\* add or upsert that is given the empty tool name or the empty command
\* name is refused with ValidationError and leaves the store as it was.
C34_EmptyNameRejected ==
    /\ \A r \in store.tools \cup store.commands : r.name # <<>>
    /\ \A description \in Descriptions, tags \in TagLists :
           /\ add_tool(store, <<>>, description, tags).err = "ValidationError"
           /\ add_tool(store, <<>>, description, tags).store = store
    /\ \A t \in store.tools, text \in CmdTexts :
           /\ add_cmd(store, t.name, <<>>, text[1], text[2]).err = "ValidationError"
           /\ add_cmd(store, t.name, <<>>, text[1], text[2]).store = store

====
